---- MODULE Spec2Model ----
(***************************************************************************)
(* Model of the video trimmer of src/App.py: sanitize_name, parse_timecode, *)
(* trim_clip and process_excel_to_zip.                                      *)
(*                                                                          *)
(* A Python str is a sequence of characters; a character is a one-letter    *)
(* string, and a character outside ASCII is written by its code point       *)
(* ("U+2026").                                                              *)
(***************************************************************************)
EXTENDS Integers, Sequences, FiniteSets, TLC

VARIABLES
    sx, s1, s2, spc,        \* sanitize_name: argument, result, result of the second call, position
    tc, tres, ppc,          \* parse_timecode: argument, outcome, position
    columns, rows,          \* process_excel_to_zip: df.columns and the rows of df, with what the
                            \* file system, yt-dlp and moviepy answer for each row's source
    pc,                     \* position in process_excel_to_zip
    ri, ci, idxp,           \* current row (from 1), column (index into columns, from 0), part (from 0)
    is_local_file, video_path, clean_channel, clean_title, folder_name, parts,
    fs,                     \* the files under out_tmp: <<folder, file name>>
    created_files, warnings, exc, archive,
    jobs,                   \* history: every part that reached the file-exists check
    faults                  \* history: every failure of a collaborator (yt-dlp, moviepy)

sanVars == <<sx, s1, s2, spc>>
tcVars == <<tc, tres, ppc>>
inputVars == <<columns, rows>>
rowVars == <<is_local_file, video_path, clean_channel, clean_title, folder_name>>
runVars == <<columns, rows, pc, ri, ci, idxp, is_local_file, video_path, clean_channel,
             clean_title, folder_name, parts, fs, created_files, warnings, exc, archive,
             jobs, faults>>
vars == <<sx, s1, s2, spc, tc, tres, ppc, columns, rows, pc, ri, ci, idxp, is_local_file,
          video_path, clean_channel, clean_title, folder_name, parts, fs, created_files,
          warnings, exc, archive, jobs, faults>>

(***************************************************************************)
(* Bounds of the model.                                                     *)
(***************************************************************************)
MaxNameLen == 3
MaxTokLen == 7
MaxRows == 2
MaxFaults == 2

(***************************************************************************)
(* Python's str operations.                                                 *)
(***************************************************************************)
\* The characters str.strip() and int() treat as whitespace.
Whitespace == {" ", "\n", "\t"}

\* The characters for which str.isprintable() is false.
NonPrintable == {"\n", "\t"}

RECURSIVE RStripChars(_, _)
\* s.rstrip(chars)
RStripChars(s, chars) ==
    IF s # <<>> /\ s[Len(s)] \in chars
    THEN RStripChars(SubSeq(s, 1, Len(s) - 1), chars)
    ELSE s

RECURSIVE LStripChars(_, _)
\* s.lstrip(chars)
LStripChars(s, chars) ==
    IF s # <<>> /\ s[1] \in chars
    THEN LStripChars(Tail(s), chars)
    ELSE s

\* s.strip()
Strip(s) ==
    LStripChars(RStripChars(s, Whitespace), Whitespace)

\* The position of the first character of s that is in seps, 0 when there is none.
FindFirst(s, seps) ==
    IF \E i \in 1..Len(s) : s[i] \in seps
    THEN CHOOSE i \in 1..Len(s) : s[i] \in seps /\ \A j \in 1..(i - 1) : s[j] \notin seps
    ELSE 0

RECURSIVE SplitOn(_, _)
\* re.split('[seps]', s) and s.split(sep): the pieces between the separators, in order.
SplitOn(s, seps) ==
    LET i == FindFirst(s, seps)
    IN  IF i = 0
        THEN <<s>>
        ELSE <<SubSeq(s, 1, i - 1)>> \o SplitOn(SubSeq(s, i + 1, Len(s)), seps)

\* s.replace(old, new) for single characters.
Replace(s, old, new) ==
    [i \in 1..Len(s) |-> IF s[i] = old THEN new ELSE s[i]]

\* The decimal digits, in order.
DigitChars == <<"0", "1", "2", "3", "4", "5", "6", "7", "8", "9">>

IsDigit(c) ==
    \E i \in 1..Len(DigitChars) : DigitChars[i] = c

DigitVal(c) ==
    (CHOOSE i \in 1..Len(DigitChars) : DigitChars[i] = c) - 1

RECURSIVE DigitsVal(_)
\* The number a non-empty run of digits writes.
DigitsVal(s) ==
    IF s = <<>> THEN 0
    ELSE DigitsVal(SubSeq(s, 1, Len(s) - 1)) * 10 + DigitVal(s[Len(s)])

\* int(p): surrounding whitespace and one sign are accepted; anything else but
\* digits (the empty string too) raises ValueError.
PyInt(p) ==
    LET t == Strip(p)
        signed == t # <<>> /\ t[1] \in {"+", "-"}
        d == IF signed THEN Tail(t) ELSE t
    IN  IF d # <<>> /\ \A i \in 1..Len(d) : IsDigit(d[i])
        THEN [ok |-> TRUE, val |-> IF signed /\ t[1] = "-" THEN 0 - DigitsVal(d) ELSE DigitsVal(d)]
        ELSE [ok |-> FALSE, val |-> 0]

RECURSIVE Dec(_)
\* str(n) of a natural number.
Dec(n) ==
    IF n < 10 THEN <<DigitChars[n + 1]>>
    ELSE Dec(n \div 10) \o <<DigitChars[(n % 10) + 1]>>

(***************************************************************************)
(* sanitize_name                                                            *)
(***************************************************************************)
Unknown == <<"U", "n", "k", "n", "o", "w", "n">>

\* The characters the substitution removes.
RemovedChars == {"\\", "/", "*", "?", ":", "\"", "<", ">", "|"}

\* unicodedata.normalize("NFKC", c) of one character: U+2026 (horizontal
\* ellipsis) is three periods, U+FF0F (fullwidth solidus) is "/", U+00A0
\* (no-break space) is a space; the other characters of the model are theirs.
NfkcChar(c) ==
    CASE c = "U+2026" -> <<".", ".", ".">>
      [] c = "U+FF0F" -> <<"/">>
      [] c = "U+00A0" -> <<" ">>
      [] OTHER -> <<c>>

RECURSIVE Nfkc(_)
Nfkc(s) ==
    IF s = <<>> THEN <<>> ELSE NfkcChar(s[1]) \o Nfkc(Tail(s))

sanitize_name(name) ==
    IF name = <<>>
    THEN Unknown
    ELSE LET n1 == Nfkc(name)
             n2 == SelectSeq(n1, LAMBDA ch : ch \notin RemovedChars)
             n3 == RStripChars(n2, {".", " "})
             n4 == SelectSeq(n3, LAMBDA ch : ch \notin NonPrintable)
             n5 == Strip(n4)
         IN  IF n5 = <<>> THEN Unknown ELSE n5

(***************************************************************************)
(* parse_timecode                                                           *)
(***************************************************************************)
\* What a call of parse_timecode does: return an int, return None, or raise.
Returned(n) == [kind |-> "int", val |-> n]
ReturnedNone == [kind |-> "None", val |-> 0]
RaisedValueError == [kind |-> "ValueError", val |-> 0]

parse_timecode(t) ==
    LET norm == Replace(Strip(t), ".", ":")
        fields == SplitOn(norm, {":"})
        tparts == [i \in 1..Len(fields) |-> PyInt(fields[i])]
    IN  IF \E i \in 1..Len(tparts) : ~tparts[i].ok
        THEN RaisedValueError
        ELSE IF Len(tparts) = 1 THEN Returned(tparts[1].val)
        ELSE IF Len(tparts) = 2 THEN Returned(tparts[1].val * 60 + tparts[2].val)
        ELSE IF Len(tparts) = 3
             THEN Returned(tparts[1].val * 3600 + tparts[2].val * 60 + tparts[3].val)
        ELSE ReturnedNone

(***************************************************************************)
(* The strings the two functions are called on.                             *)
(***************************************************************************)
RECURSIVE StringsUpTo(_, _)
\* Every string over alphabet of length at most n.
StringsUpTo(alphabet, n) ==
    IF n = 0 THEN {<<>>}
    ELSE LET shorter == StringsUpTo(alphabet, n - 1)
         IN  shorter \cup {Append(s, c) : s \in shorter, c \in alphabet}

NameAlphabet == {"a", "/", ".", " ", "\n", "U+2026"}
TokenAlphabet == {"1", "2", ":", ".", "x"}

(***************************************************************************)
(* sanitize_name called on a name, then on its own result.                  *)
(***************************************************************************)
TcIdle ==
    tc = <<>> /\ tres = ReturnedNone /\ ppc = "idle"

SanIdle ==
    sx = <<>> /\ s1 = <<>> /\ s2 = <<>> /\ spc = "idle"

RunIdle ==
    /\ columns = <<>> /\ rows = <<>> /\ pc = "idle"
    /\ ri = 0 /\ ci = 0 /\ idxp = 0
    /\ is_local_file = FALSE /\ video_path = <<>>
    /\ clean_channel = <<>> /\ clean_title = <<>> /\ folder_name = <<>>
    /\ parts = <<>> /\ fs = {} /\ created_files = <<>> /\ warnings = <<>>
    /\ exc = "" /\ archive = <<>> /\ jobs = <<>> /\ faults = <<>>

InitSanitize ==
    /\ sx \in StringsUpTo(NameAlphabet, MaxNameLen)
    /\ s1 = <<>>
    /\ s2 = <<>>
    /\ spc = "call"
    /\ TcIdle
    /\ RunIdle

Sanitize ==
    /\ spc = "call"
    /\ s1' = sanitize_name(sx)
    /\ spc' = "again"
    /\ UNCHANGED <<sx, s2, tcVars, runVars>>

SanitizeAgain ==
    /\ spc = "again"
    /\ s2' = sanitize_name(s1)
    /\ spc' = "done"
    /\ UNCHANGED <<sx, s1, tcVars, runVars>>

NextSanitize ==
    \/ Sanitize
    \/ SanitizeAgain

SpecSanitize == InitSanitize /\ [][NextSanitize]_vars

(***************************************************************************)
(* parse_timecode called on a token.                                        *)
(***************************************************************************)
InitParse ==
    /\ tc \in StringsUpTo(TokenAlphabet, MaxTokLen)
    /\ tres = ReturnedNone
    /\ ppc = "call"
    /\ SanIdle
    /\ RunIdle

ParseTimecode ==
    /\ ppc = "call"
    /\ tres' = parse_timecode(tc)
    /\ ppc' = "done"
    /\ UNCHANGED <<tc, sanVars, runVars>>

NextParse ==
    \/ ParseTimecode

SpecParse == InitParse /\ [][NextParse]_vars

(***************************************************************************)
(* os.path                                                                  *)
(***************************************************************************)
\* The position of the last character of s that is c, 0 when there is none.
FindLast(s, c) ==
    IF \E i \in 1..Len(s) : s[i] = c
    THEN CHOOSE i \in 1..Len(s) : s[i] = c /\ \A j \in (i + 1)..Len(s) : s[j] # c
    ELSE 0

\* os.path.basename(p)
Basename(p) ==
    SubSeq(p, FindLast(p, "/") + 1, Len(p))

\* os.path.dirname(p)
Dirname(p) ==
    LET head == SubSeq(p, 1, FindLast(p, "/"))
    IN  IF head # <<>> /\ \E i \in 1..Len(head) : head[i] # "/"
        THEN RStripChars(head, {"/"})
        ELSE head

\* os.path.splitext(name)[0] of a file name without directory: the name up to
\* its last period, unless only periods come before it.
SplitextRoot(name) ==
    LET dot == FindLast(name, ".")
    IN  IF dot > 0 /\ \E i \in 1..(dot - 1) : name[i] # "."
        THEN SubSeq(name, 1, dot - 1)
        ELSE name

(***************************************************************************)
(* The table process_excel_to_zip reads, and what its collaborators answer. *)
(***************************************************************************)
\* A cell pandas reads as NaN. str() of a cell never gives the empty string,
\* so the empty string stands for it.
NaN == <<>>

ColumnSets == {
    <<<<"U", "R", "L">>, <<"C", "l", "i", "p", " ", "(", "a", ")">>,
      <<"C", "l", "i", "p", " ", "(", "b", ")">>>>,
    <<<<"U", "R", "L">>, <<"C", "l", "i", "p">>, <<"I", "n", "t", "r", "o">>>> }

\* info of yt-dlp: an absent key is the empty string.
InfoT == [title |-> <<"T">>, uploader |-> <<"C", "h">>, channel |-> <<>>]
InfoTQ == [title |-> <<"T", "?">>, uploader |-> <<>>, channel |-> <<"C", "h">>]
InfoNone == [title |-> <<>>, uploader |-> <<>>, channel |-> <<>>]

\* "00:01-00:12,00:20-00:30"
CellTwoRanges ==
    <<"0", "0", ":", "0", "1", "-", "0", "0", ":", "1", "2", ",",
      "0", "0", ":", "2", "0", "-", "0", "0", ":", "3", "0">>

\* "00:01-00:12,garbage,00:20-00:30"
CellGarbage ==
    <<"0", "0", ":", "0", "1", "-", "0", "0", ":", "1", "2", ",",
      "g", "a", "r", "b", "a", "g", "e", ",",
      "0", "0", ":", "2", "0", "-", "0", "0", ":", "3", "0">>

\* Remote, cells "00:01-00:12,00:20-00:30" and "0-5".
RowTwoRanges ==
    [src |-> <<"u", "1">>, exists |-> FALSE, info |-> InfoT, duration |-> 25,
     cells |-> <<CellTwoRanges, <<"0", "-", "5">> >>]

\* Remote, cells "00:01-00:12,garbage,00:20-00:30" and NaN.
RowGarbage ==
    [src |-> <<"u", "2">>, exists |-> FALSE, info |-> InfoTQ, duration |-> 60,
     cells |-> <<CellGarbage, NaN>>]

\* Remote, cells "1-2/x-3,4-5" and "0-5".
RowBadToken ==
    [src |-> <<"u", "3">>, exists |-> FALSE, info |-> InfoNone, duration |-> 25,
     cells |-> << <<"1", "-", "2", "/", "x", "-", "3", ",", "4", "-", "5">>,
                  <<"0", "-", "5">> >>]

\* Remote, cells "1:1:1:1-2,3-4" and "notes".
RowFourFields ==
    [src |-> <<"u", "4">>, exists |-> FALSE, info |-> InfoNone, duration |-> 25,
     cells |-> << <<"1", ":", "1", ":", "1", ":", "1", "-", "2", ",", "3", "-", "4">>,
                  <<"n", "o", "t", "e", "s">> >>]

\* The local file "clips/T.mp4", channel "Ch", cell "0-5,30-40".
RowLocal ==
    [src |-> <<"c", "l", "i", "p", "s", "/", "T", ".", "m", "p", "4">>, exists |-> TRUE,
     info |-> InfoNone, duration |-> 25,
     cells |-> << <<"C", "h">>, <<"0", "-", "5", ",", "3", "0", "-", "4", "0">> >>]

\* The local file "vids/a.mp4", no channel, cell "5-5".
RowLocalNoChannel ==
    [src |-> <<"v", "i", "d", "s", "/", "a", ".", "m", "p", "4">>, exists |-> TRUE,
     info |-> InfoNone, duration |-> 25,
     cells |-> << NaN, <<"5", "-", "5">> >>]

\* A source of spaces only.
RowBlank ==
    [src |-> <<" ", " ">>, exists |-> FALSE, info |-> InfoNone, duration |-> 25,
     cells |-> << <<"0", "-", "5">>, NaN >>]

RowSet ==
    {RowTwoRanges, RowGarbage, RowBadToken, RowFourFields, RowLocal, RowLocalNoChannel,
     RowBlank}

\* Every table of 1 to n rows.
Tables(n) ==
    UNION {[1..k -> RowSet] : k \in 1..n}

(***************************************************************************)
(* trim_clip                                                                *)
(***************************************************************************)
Max(a, b) == IF a >= b THEN a ELSE b
Min(a, b) == IF a <= b THEN a ELSE b

\* What trim_clip returns when moviepy does not fail: False, nothing written,
\* when the clamped range is empty, and True, output_file written, otherwise.
trim_clip(duration, start_s, end_s) ==
    Max(0, start_s) < Min(duration, end_s)

(***************************************************************************)
(* process_excel_to_zip                                                     *)
(***************************************************************************)
Untitled == <<"U", "n", "t", "i", "t", "l", "e", "d">>
LocalFile == <<"L", "o", "c", "a", "l", "F", "i", "l", "e">>
TempVideo == <<"t", "e", "m", "p", "_", "v", "i", "d", "e", "o", ".", "m", "p", "4">>
FolderNameMax == 180

Row == rows[ri]

\* The cell of row r under columns[c].
Cell(r, c) == r.cells[c]

source_identifier == Strip(Row.src)

\* title and channel of a local file.
LocalTitle(path) ==
    SplitextRoot(Basename(path))

LocalChannel(path, custom_channel) ==
    IF custom_channel # NaN /\ Strip(custom_channel) # <<>>
    THEN Strip(custom_channel)
    ELSE IF Basename(Dirname(path)) # <<>> THEN Basename(Dirname(path)) ELSE LocalFile

\* title and channel of a remote source, from its info.
RemoteTitle(info) ==
    IF info.title # <<>> THEN info.title ELSE Untitled

RemoteChannel(info) ==
    IF info.uploader # <<>> THEN info.uploader
    ELSE IF info.channel # <<>> THEN info.channel
    ELSE Unknown

FolderName(channel, title) ==
    LET full == channel \o <<"_">> \o title
    IN  SubSeq(full, 1, Min(FolderNameMax, Len(full)))

\* sanitize_name(col.split("(")[0].strip())
ColClean(col) ==
    sanitize_name(Strip(SplitOn(col, {"("})[1]))

\* OutputName numbering the parts from 0, as enumerate does.
OutputNameFromZero(col_clean, channel, title, i) ==
    col_clean \o <<"_">> \o channel \o <<"_">> \o title \o <<"_", "p", "a", "r", "t">>
        \o Dec(i) \o <<".", "m", "p", "4">>

OutputName(col_clean, channel, title, i) ==
    col_clean \o <<"_">> \o channel \o <<"_">> \o title \o <<"_", "p", "a", "r", "t">>
        \o Dec(i + 1) \o <<".", "m", "p", "4">>

\* Collect without the try: the path is appended whether or not the call raised.
CollectAlways(files, outpath, raised) ==
    Append(files, outpath)

\* created_files after a call of trim_clip: the path is appended unless the
\* call raised.
Collect(files, outpath, raised) ==
    IF raised THEN files ELSE Append(files, outpath)

\* The part the inner loop is at, its tokens and what parse_timecode makes of them.
part == parts[idxp + 1]
HasDash(s) == \E i \in 1..Len(s) : s[i] = "-"
start_str == SubSeq(part, 1, FindFirst(part, {"-"}) - 1)
end_str == SubSeq(part, FindFirst(part, {"-"}) + 1, Len(part))
ssec == parse_timecode(start_str)
esec == parse_timecode(end_str)
filename == OutputName(ColClean(columns[ci + 1]), clean_channel, clean_title, idxp)
outpath == <<folder_name, filename>>

Job(existed, outcome) ==
    [row |-> ri, col |-> ci, idxp |-> idxp, part |-> part, channel |-> clean_channel,
     title |-> clean_title, path |-> outpath, ssec |-> ssec.val, esec |-> esec.val,
     existed |-> existed, outcome |-> outcome]

InitRun ==
    /\ columns \in ColumnSets
    /\ rows \in Tables(MaxRows)
    /\ pc = "row"
    /\ ri = 1 /\ ci = 0 /\ idxp = 0
    /\ is_local_file = FALSE /\ video_path = <<>>
    /\ clean_channel = <<>> /\ clean_title = <<>> /\ folder_name = <<>>
    /\ parts = <<>>
    /\ fs = {}
    /\ created_files = <<>> /\ warnings = <<>>
    /\ exc = "" /\ archive = <<>>
    /\ jobs = <<>> /\ faults = <<>>
    /\ SanIdle /\ TcIdle

AtRow == pc = "row" /\ ri <= Len(rows)

\* if not source_identifier: continue
SkipBlankSource ==
    /\ AtRow
    /\ source_identifier = <<>>
    /\ ri' = ri + 1
    /\ UNCHANGED <<inputVars, pc, ci, idxp, rowVars, parts, fs, created_files, warnings,
                   exc, archive, jobs, faults, sanVars, tcVars>>

\* The source is a local file: title and channel from its path and the second column.
ResolveLocal ==
    /\ AtRow
    /\ source_identifier # <<>>
    /\ Row.exists
    /\ is_local_file' = TRUE
    /\ video_path' = <<source_identifier>>
    /\ clean_channel' = sanitize_name(LocalChannel(source_identifier,
                            IF Len(columns) > 1 THEN Cell(Row, 1) ELSE NaN))
    /\ clean_title' = sanitize_name(LocalTitle(source_identifier))
    /\ folder_name' = FolderName(clean_channel', clean_title')
    /\ ci' = 2
    /\ pc' = "cell"
    /\ UNCHANGED <<inputVars, ri, idxp, parts, fs, created_files, warnings, exc, archive,
                   jobs, faults, sanVars, tcVars>>

\* The source is remote and yt-dlp returns its info.
FetchMetadata ==
    /\ AtRow
    /\ source_identifier # <<>>
    /\ ~Row.exists
    /\ is_local_file' = FALSE
    /\ video_path' = <<>>
    /\ clean_channel' = sanitize_name(RemoteChannel(Row.info))
    /\ clean_title' = sanitize_name(RemoteTitle(Row.info))
    /\ folder_name' = FolderName(clean_channel', clean_title')
    /\ pc' = "download"
    /\ UNCHANGED <<inputVars, ri, ci, idxp, parts, fs, created_files, warnings, exc,
                   archive, jobs, faults, sanVars, tcVars>>

\* The source is remote and extract_info raises: warning, next row.
FetchMetadataFails ==
    /\ AtRow
    /\ source_identifier # <<>>
    /\ ~Row.exists
    /\ Len(faults) < MaxFaults
    /\ faults' = Append(faults, [kind |-> "metadata", row |-> ri])
    /\ warnings' = Append(warnings, [kind |-> "metadata", row |-> ri])
    /\ is_local_file' = FALSE
    /\ video_path' = <<>>
    /\ ri' = ri + 1
    /\ UNCHANGED <<inputVars, pc, ci, idxp, clean_channel, clean_title, folder_name,
                   parts, fs, created_files, exc, archive, jobs, sanVars, tcVars>>

\* download_video writes the video into the row's folder.
DownloadVideo ==
    /\ pc = "download"
    /\ video_path' = <<folder_name, TempVideo>>
    /\ fs' = fs \cup {video_path'}
    /\ ci' = 1
    /\ pc' = "cell"
    /\ UNCHANGED <<inputVars, ri, idxp, is_local_file, clean_channel, clean_title,
                   folder_name, parts, created_files, warnings, exc, archive, jobs,
                   faults, sanVars, tcVars>>

\* download_video raises: warning, next row.
DownloadFails ==
    /\ pc = "download"
    /\ Len(faults) < MaxFaults
    /\ faults' = Append(faults, [kind |-> "download", row |-> ri])
    /\ warnings' = Append(warnings, [kind |-> "download", row |-> ri])
    /\ ri' = ri + 1
    /\ pc' = "row"
    /\ UNCHANGED <<inputVars, ci, idxp, rowVars, parts, fs, created_files, exc, archive,
                   jobs, sanVars, tcVars>>

AtCell == pc = "cell" /\ ci < Len(columns)

\* A cell that is NaN, blank or without "-": next column.
SkipCell ==
    /\ AtCell
    /\ \/ Cell(Row, ci) = NaN
       \/ Strip(Cell(Row, ci)) = <<>>
       \/ ~HasDash(Strip(Cell(Row, ci)))
    /\ ci' = ci + 1
    /\ UNCHANGED <<inputVars, pc, ri, idxp, rowVars, parts, fs, created_files, warnings,
                   exc, archive, jobs, faults, sanVars, tcVars>>

\* parts = re.split(r'[/,]', text)
SplitCell ==
    /\ AtCell
    /\ Cell(Row, ci) # NaN
    /\ HasDash(Strip(Cell(Row, ci)))
    /\ parts' = SplitOn(Strip(Cell(Row, ci)), {"/", ","})
    /\ idxp' = 0
    /\ pc' = "part"
    /\ UNCHANGED <<inputVars, ri, ci, rowVars, fs, created_files, warnings, exc, archive,
                   jobs, faults, sanVars, tcVars>>

AtPart == pc = "part" /\ idxp < Len(parts)
Parsed == HasDash(part) /\ ssec.kind = "int" /\ esec.kind = "int"

\* The parts of the cell are done: next column.
EndOfCell ==
    /\ pc = "part"
    /\ idxp >= Len(parts)
    /\ ci' = ci + 1
    /\ pc' = "cell"
    /\ UNCHANGED <<inputVars, ri, idxp, rowVars, parts, fs, created_files, warnings, exc,
                   archive, jobs, faults, sanVars, tcVars>>

\* if "-" not in part: continue
PartWithoutDash ==
    /\ AtPart
    /\ ~HasDash(part)
    /\ idxp' = idxp + 1
    /\ UNCHANGED <<inputVars, pc, ri, ci, rowVars, parts, fs, created_files, warnings,
                   exc, archive, jobs, faults, sanVars, tcVars>>

\* int() raises in parse_timecode; nothing in process_excel_to_zip catches it.
PartTokenRaises ==
    /\ AtPart
    /\ HasDash(part)
    /\ ssec.kind = "ValueError" \/ (ssec.kind # "ValueError" /\ esec.kind = "ValueError")
    /\ exc' = "ValueError"
    /\ pc' = "raised"
    /\ UNCHANGED <<inputVars, ri, ci, idxp, rowVars, parts, fs, created_files, warnings,
                   archive, jobs, faults, sanVars, tcVars>>

\* if ssec is None or esec is None: continue
PartTokenNone ==
    /\ AtPart
    /\ HasDash(part)
    /\ ssec.kind # "ValueError" /\ esec.kind # "ValueError"
    /\ ssec.kind = "None" \/ esec.kind = "None"
    /\ idxp' = idxp + 1
    /\ UNCHANGED <<inputVars, pc, ri, ci, rowVars, parts, fs, created_files, warnings,
                   exc, archive, jobs, faults, sanVars, tcVars>>

\* os.path.exists(outpath): trim_clip is not called.
PartAlreadyExists ==
    /\ AtPart
    /\ Parsed
    /\ outpath \in fs
    /\ jobs' = Append(jobs, Job(TRUE, "exists"))
    /\ idxp' = idxp + 1
    /\ UNCHANGED <<inputVars, pc, ri, ci, rowVars, parts, fs, created_files, warnings,
                   exc, archive, faults, sanVars, tcVars>>

\* trim_clip returns: True with the clip written, or False with nothing written.
TrimClip ==
    /\ AtPart
    /\ Parsed
    /\ outpath \notin fs
    /\ LET written == trim_clip(Row.duration, ssec.val, esec.val)
       IN  /\ fs' = IF written THEN fs \cup {outpath} ELSE fs
           /\ jobs' = Append(jobs, Job(FALSE, IF written THEN "True" ELSE "False"))
    /\ created_files' = Collect(created_files, outpath, FALSE)
    /\ idxp' = idxp + 1
    /\ UNCHANGED <<inputVars, pc, ri, ci, rowVars, parts, warnings, exc, archive, faults,
                   sanVars, tcVars>>

\* moviepy raises in trim_clip, on opening the video or on writing the clip (a
\* partial output file may stay): warning, next part.
TrimClipRaises ==
    /\ AtPart
    /\ Parsed
    /\ outpath \notin fs
    /\ Len(faults) < MaxFaults
    /\ \E partial \in BOOLEAN :
        /\ partial => trim_clip(Row.duration, ssec.val, esec.val)
        /\ fs' = IF partial THEN fs \cup {outpath} ELSE fs
    /\ faults' = Append(faults, [kind |-> "trim", row |-> ri])
    /\ warnings' = Append(warnings, [kind |-> "trim", row |-> ri])
    /\ jobs' = Append(jobs, Job(FALSE, "raised"))
    /\ created_files' = Collect(created_files, outpath, TRUE)
    /\ idxp' = idxp + 1
    /\ UNCHANGED <<inputVars, pc, ri, ci, rowVars, parts, exc, archive, sanVars, tcVars>>

\* The columns of the row are done: the downloaded video is removed, next row.
Cleanup ==
    /\ pc = "cell"
    /\ ci >= Len(columns)
    /\ fs' = IF ~is_local_file THEN fs \ {video_path} ELSE fs
    /\ ri' = ri + 1
    /\ pc' = "row"
    /\ UNCHANGED <<inputVars, ci, idxp, rowVars, parts, created_files, warnings, exc,
                   archive, jobs, faults, sanVars, tcVars>>

AllCollectedExist == \A i \in 1..Len(created_files) : created_files[i] \in fs

\* The archive is written from created_files, the temporary directory removed.
WriteArchive ==
    /\ pc = "row"
    /\ ri > Len(rows)
    /\ AllCollectedExist
    /\ archive' = created_files
    /\ fs' = {}
    /\ pc' = "returned"
    /\ UNCHANGED <<inputVars, ri, ci, idxp, rowVars, parts, created_files, warnings, exc,
                   jobs, faults, sanVars, tcVars>>

\* zf.write of a path that does not exist raises FileNotFoundError.
WriteArchiveRaises ==
    /\ pc = "row"
    /\ ri > Len(rows)
    /\ ~AllCollectedExist
    /\ exc' = "FileNotFoundError"
    /\ pc' = "raised"
    /\ UNCHANGED <<inputVars, ri, ci, idxp, rowVars, parts, fs, created_files, warnings,
                   archive, jobs, faults, sanVars, tcVars>>

Next ==
    \/ SkipBlankSource
    \/ ResolveLocal
    \/ FetchMetadata
    \/ FetchMetadataFails
    \/ DownloadVideo
    \/ DownloadFails
    \/ SkipCell
    \/ SplitCell
    \/ EndOfCell
    \/ PartWithoutDash
    \/ PartTokenRaises
    \/ PartTokenNone
    \/ PartAlreadyExists
    \/ TrimClip
    \/ TrimClipRaises
    \/ Cleanup
    \/ WriteArchive
    \/ WriteArchiveRaises

Spec == InitRun /\ [][Next]_vars

(***************************************************************************)
(* The reference parser of timecode tokens: 1, 2 or 3 fields of digits,     *)
(* separated by ":" or ".", are seconds, minutes and seconds, or hours,     *)
(* minutes and seconds; any other token is unparseable.                     *)
(***************************************************************************)
RefNumeric(f) ==
    f # <<>> /\ \A i \in 1..Len(f) : IsDigit(f[i])

RefParse(t) ==
    LET f == SplitOn(Replace(t, ".", ":"), {":"})
    IN  IF Len(f) \in 1..3 /\ \A i \in 1..Len(f) : RefNumeric(f[i])
        THEN CASE Len(f) = 1 -> Returned(DigitsVal(f[1]))
               [] Len(f) = 2 -> Returned(60 * DigitsVal(f[1]) + DigitsVal(f[2]))
               [] Len(f) = 3 -> Returned(3600 * DigitsVal(f[1]) + 60 * DigitsVal(f[2])
                                         + DigitsVal(f[3]))
        ELSE ReturnedNone

\* A part that is not a well-formed range: no "-", or a start or end token the
\* reference parser finds unparseable.
BadPart(p) ==
    \/ ~HasDash(p)
    \/ RefParse(Strip(SubSeq(p, 1, FindFirst(p, {"-"}) - 1))) = ReturnedNone
    \/ RefParse(Strip(SubSeq(p, FindFirst(p, {"-"}) + 1, Len(p)))) = ReturnedNone

JobIds == 1..Len(jobs)

\* The range of a job is not empty once clamped to the duration of its source.
ValidRange(j) ==
    Max(0, j.ssec) < Min(rows[j.row].duration, j.esec)

(***************************************************************************)
(* Claims                                                                   *)
(***************************************************************************)
\* C1: a part of a timecode cell that has no "-", or whose start or end token is
\* unparseable, is skipped on its own: the step that meets it moves to the next
\* part of the same cell and changes nothing else (no file, no collected path,
\* no warning, no exception), so the rest of the run goes on.
C1_BadPartSkippedAlone ==
    [][(AtPart /\ BadPart(part))
        => /\ pc' = "part"
           /\ idxp' = idxp + 1
           /\ UNCHANGED <<ri, ci, parts, fs, created_files, warnings, exc, jobs>>]_vars

\* C2: a parsed range that is empty after clamping produces no clip, no collected
\* path and no error: its path is not in created_files, every collected path is
\* a file that exists until the archive is written, and the run does not end in
\* FileNotFoundError.
C2_EmptyRangeYieldsNothing ==
    /\ \A k \in JobIds : jobs[k].outcome = "False"
          => \A i \in 1..Len(created_files) : created_files[i] # jobs[k].path
    /\ pc # "returned" => AllCollectedExist
    /\ exc # "FileNotFoundError"

\* C3: within one row, two distinct jobs (another column, or another part of the
\* cell) never have the same output file name, so none is skipped by the
\* file-exists check because of a sibling.
C3_OutputNameUniqueInRow ==
    \A a, b \in JobIds :
        (jobs[a].row = jobs[b].row
         /\ (jobs[a].col # jobs[b].col \/ jobs[a].idxp # jobs[b].idxp))
        => jobs[a].path # jobs[b].path

\* C4: a job whose output file exists is not extracted again, and, the output
\* location holding no prior output when the run starts, every job with a valid
\* range that moviepy does not fail is extracted, exactly once.
C4_ExistingSkippedOthersExtractedOnce ==
    \A k \in JobIds :
        /\ jobs[k].existed => jobs[k].outcome = "exists"
        /\ (ValidRange(jobs[k]) /\ jobs[k].outcome # "raised") => jobs[k].outcome = "True"
        /\ jobs[k].outcome = "True"
              => \A m \in JobIds : (m # k /\ jobs[m].path = jobs[k].path)
                    => jobs[m].outcome \notin {"True"}

\* C5: two rows of the table with different sources never resolve to the same
\* output folder.
C5_FolderUniqueAcrossRows ==
    \A a, b \in JobIds :
        (jobs[a].row # jobs[b].row /\ rows[jobs[a].row].src # rows[jobs[b].row].src)
        => jobs[a].path[1] # jobs[b].path[1]

\* C6: a failure of a collaborator is never fatal. The step in which the
\* metadata fetch or the download fails surfaces one warning, collects nothing,
\* leaves the row without jobs and moves to the next row (the archive step after
\* the last row); the step in which trim_clip raises surfaces one warning, does
\* not collect the job's path and moves to the next part of the same cell. No
\* such step raises.
C6_CollaboratorFailureNotFatal ==
    [][Len(faults') > Len(faults)
        => LET f == faults'[Len(faults')]
           IN  /\ pc' # "raised" /\ exc' = ""
               /\ warnings' = Append(warnings, [kind |-> f.kind, row |-> ri])
               /\ created_files' = created_files
               /\ f.kind \in {"metadata", "download"}
                    => /\ pc' = "row" /\ ri' = ri + 1
                       /\ \A k \in 1..Len(jobs') : jobs'[k].row # ri
               /\ f.kind = "trim"
                    => /\ pc' = "part" /\ idxp' = idxp + 1
                       /\ ri' = ri /\ ci' = ci /\ parts' = parts]_vars

\* C6 happens: the metadata fetch or the download of a row failed and a job of a
\* later row was extracted; trim_clip raised for a job and a later job of the
\* same row was extracted; the archive was returned with what was extracted.
C6_Witness ==
    /\ pc = "returned"
    /\ \E i \in 1..Len(faults) : \E n \in JobIds :
        /\ faults[i].kind \in {"metadata", "download"}
        /\ jobs[n].row > faults[i].row /\ jobs[n].outcome = "True"
    /\ \E k, m \in JobIds :
        /\ jobs[k].outcome = "raised"
        /\ m > k /\ jobs[m].row = jobs[k].row /\ jobs[m].outcome = "True"
        /\ \E i \in 1..Len(archive) : archive[i] = jobs[m].path
    /\ Len(warnings) = 2

\* C7: parse_timecode agrees with the reference parser on every token: the
\* seconds of a token of 1 to 3 numeric fields, and None, not an exception, for
\* every other token.
C7_ParseMatchesReference ==
    ppc = "done" => tres = RefParse(tc)

\* C8: sanitize_name is idempotent.
C8_SanitizeIdempotent ==
    spc = "done" => s2 = s1

\* C9: the result of sanitize_name is not empty, holds no removed and no
\* non-printable character, does not end with a period or a space, and is
\* "Unknown" for a name that is empty or made of removed characters only.
C9_SanitizeSafe ==
    spc \in {"again", "done"}
    => /\ s1 # <<>>
       /\ \A i \in 1..Len(s1) : s1[i] \notin RemovedChars \cup NonPrintable
       /\ s1[Len(s1)] \notin {".", " "}
       /\ (\A i \in 1..Len(sx) : sx[i] \in RemovedChars) => s1 = Unknown

\* The part numbers of the jobs of the cell of row r under columns[c].
PartNumbers(r, c) ==
    {jobs[k].idxp + 1 : k \in {h \in JobIds : jobs[h].row = r /\ jobs[h].col = c}}

\* Row r is over and no collaborator failed in it before its cells were read.
RowRead(r) ==
    /\ ri > r
    /\ \A i \in 1..Len(faults) : faults[i].row = r => faults[i].kind = "trim"

\* C10: every job is named "{column label}_{channel}_{title}_part{index}.mp4",
\* index being the 1-based position of its part among all the parts of the cell
\* (the parts of a cell of RowSet are pairwise different, so its text finds it);
\* the cell "00:01-00:12,00:20-00:30" yields part1 (1,12) and part2 (20,30), the
\* cell "00:01-00:12,garbage,00:20-00:30" exactly part1 (1,12) and part3 (20,30).
C10_PartIndexIsPosition ==
    /\ \A k \in JobIds :
        LET j == jobs[k]
            text == Strip(Cell(rows[j.row], j.col))
            all == SplitOn(text, {"/", ","})
            position == CHOOSE q \in 1..Len(all) : all[q] = j.part
        IN  /\ \E q \in 1..Len(all) : all[q] = j.part
            /\ j.path[2] = ColClean(columns[j.col + 1]) \o <<"_">> \o j.channel \o <<"_">>
                              \o j.title \o <<"_", "p", "a", "r", "t">> \o Dec(position)
                              \o <<".", "m", "p", "4">>
            /\ text = CellTwoRanges
                  => <<j.idxp + 1, j.ssec, j.esec>> \in {<<1, 1, 12>>, <<2, 20, 30>>}
            /\ text = CellGarbage
                  => <<j.idxp + 1, j.ssec, j.esec>> \in {<<1, 1, 12>>, <<3, 20, 30>>}
    /\ \A r \in 1..Len(rows) : \A c \in 1..2 :
        (RowRead(r) /\ ~rows[r].exists /\ Strip(rows[r].src) # <<>>)
        => /\ Cell(rows[r], c) = CellTwoRanges => PartNumbers(r, c) = {1, 2}
           /\ Cell(rows[r], c) = CellGarbage => PartNumbers(r, c) = {1, 3}

\* C10 happens: the run returned an archive with part1 and part3 of the cell
\* "00:01-00:12,garbage,00:20-00:30", and went through part1 and part2 of the cell
\* "00:01-00:12,00:20-00:30" of another row.
C10_Witness ==
    /\ pc = "returned"
    /\ \E r \in 1..Len(rows) :
        /\ Cell(rows[r], 1) = CellGarbage
        /\ PartNumbers(r, 1) = {1, 3}
        /\ \A k \in JobIds : jobs[k].row = r => jobs[k].outcome = "True"
    /\ \E r \in 1..Len(rows) :
        /\ Cell(rows[r], 1) = CellTwoRanges
        /\ PartNumbers(r, 1) = {1, 2}

====
